---- MODULE Spec2Model ----
(***************************************************************************)
(* State-machine model of scraper.py: the persistent browser singleton     *)
(* (_get_browser, _force_restart_browser, _shutdown_browser), the          *)
(* crash-aware retry wrapper (scrape_js_website, _scrape_page), the two    *)
(* request handlers that use it (/feed, /debug) and the result cache.      *)
(*                                                                         *)
(* Request handlers run on worker threads; everything the Playwright       *)
(* layer does (launching, probing, opening pages, navigating, querying)    *)
(* is an environment step that either returns or raises one of the errors  *)
(* listed below; the render process may also die on its own at any time.   *)
(***************************************************************************)
EXTENDS Integers, Sequences, FiniteSets, TLC

\* ------------------------------------------------------------------ bounds

\* Worker threads of the HTTP server that run the request handlers.
Threads == {"w1", "w2"}

\* Names for the driver/browser pairs: a launch takes the first name nothing
\* refers to any more.
NumHandles == 2

\* Last clock value.
MaxNow == 600

\* Most elements a page's item selector matches.
MaxMatches == 25

\* ------------------------------------------------------- program constants

CACHE_DURATION == 600

max_attempts_plus_one == 2 + 1

ItemLimitPlusOne == 20 + 1

max_attempts == 2

debug_attempts == 2

ItemLimit == 20

\* The clock advances in steps of half a freshness window, so that the ages
\* 0, 300 (fresh) and 600 (the boundary, expired) all occur.
ClockStep == CACHE_DURATION \div 2

None == 0
NoThread == "none"

\* ------------------------------------------------------------------ errors
\* An exception is its class and its message.  A message is the sequence of
\* its words, so that str(error).lower() and the substring tests of
\* _is_browser_crash are computed, not assumed.

NoErr == [cls |-> "none", msg |-> <<>>]

\* Playwright prefixes every API failure with the API name ("Page.goto: ...").
ClosedText == <<"Target", "page", ",", "context", "or", "browser", "has", "been", "closed">>

NavTimeout == [cls |-> "PlaywrightTimeoutError",
               msg |-> <<"Page.goto", ":", "Timeout", "60000ms", "exceeded">>]
NavClosed == [cls |-> "PlaywrightError", msg |-> <<"Page.goto", ":">> \o ClosedText]
StdTimeout == [cls |-> "TimeoutError", msg |-> <<"timed", "out">>]
NewPageClosed == [cls |-> "PlaywrightError", msg |-> <<"Browser.new_page", ":">> \o ClosedText]
QueryClosed == [cls |-> "PlaywrightError",
                msg |-> <<"Page.query_selector_all", ":">> \o ClosedText]
QueryBad == [cls |-> "PlaywrightError",
             msg |-> <<"Page.query_selector_all", ":", "Unexpected", "token">>]
LaunchFail == [cls |-> "PlaywrightError",
               msg |-> <<"BrowserType.launch", ":", "Executable", "doesn't", "exist">>]
DriverFail == [cls |-> "OSError", msg |-> <<"Cannot", "allocate", "memory">>]
CloseFail == [cls |-> "PlaywrightError", msg |-> <<"Browser.close", ":", "Connection", "closed">>]
StopFail == [cls |-> "Exception",
             msg |-> <<"Connection", "closed", "while", "reading", "from", "the", "driver">>]

\* What each operation may raise on a browser that is connected, and what it
\* raises on one that is not.
GotoErrors == {NavTimeout, NavClosed, StdTimeout}
QueryErrors == {QueryBad}
StartErrors == {DriverFail}
LaunchErrors == {LaunchFail}

\* Python's class hierarchy, as the except clauses see it.
IsInstance(cls, base) ==
    \/ cls = base
    \/ base = "Exception" /\ cls # "none"
    \/ base = "PlaywrightError" /\ cls = "PlaywrightTimeoutError"

\* str.lower(), word by word.
LowerWord(w) ==
    CASE w = "Page.goto" -> "page.goto"
      [] w = "Browser.new_page" -> "browser.new_page"
      [] w = "Page.query_selector_all" -> "page.query_selector_all"
      [] w = "BrowserType.launch" -> "browsertype.launch"
      [] w = "Target" -> "target"
      [] w = "Timeout" -> "timeout"
      [] w = "Unexpected" -> "unexpected"
      [] w = "Executable" -> "executable"
      [] w = "Cannot" -> "cannot"
      [] w = "Browser.close" -> "browser.close"
      [] w = "Connection" -> "connection"
      [] OTHER -> w

lower(msg) == [i \in 1..Len(msg) |-> LowerWord(msg[i])]

\* keyword in msg
Contains(msg, kw) ==
    \E i \in 0..(Len(msg) - Len(kw)) : SubSeq(msg, i + 1, i + Len(kw)) = kw

CrashKeywords ==
    { <<"target", "closed">>,
      <<"browser", "has", "been", "closed">>,
      <<"connection", "closed">>,
      <<"target", "page", ",", "context", "or", "browser", "has", "been", "closed">>,
      <<"browser.newpage">>,
      <<"page.goto">> }

_is_browser_crash(error) ==
    \E kw \in CrashKeywords : Contains(lower(error.msg), kw)

\* ------------------------------------------------------------- extraction
\* A text is the sequence of its tokens, " " being white space.  A matched
\* element: the inner text of its title element (<<>> when the selector
\* matches nothing), the href of its link element ("" when there is no link
\* element or no href), and whether a selector call on it raises.

Elem(title, href, raises) == [title |-> title, href |-> href, raises |-> raises]

RECURSIVE lstrip(_)
lstrip(text) == IF text # <<>> /\ Head(text) = " " THEN lstrip(Tail(text)) ELSE text

RECURSIVE rstrip(_)
rstrip(text) ==
    IF text # <<>> /\ text[Len(text)] = " "
    THEN rstrip(SubSeq(text, 1, Len(text) - 1))
    ELSE text

\* str.strip()
strip(text) == rstrip(lstrip(text))

\* urljoin(url, href), for a url and a href that are not empty.
urljoin(url, href) == <<url, href>>

\* item.get("link") of an item without the key.
NoLink == <<>>

RECURSIVE ExtractLoopStopsAtError(_, _)
ExtractLoopStopsAtError(url, elements) ==
    IF elements = <<>> THEN <<>>
    ELSE LET el == Head(elements)
             title == strip(el.title)
             link == IF el.href # "" THEN urljoin(url, el.href) ELSE NoLink
             rest == ExtractLoopStopsAtError(url, Tail(elements))
         IN  IF el.raises THEN <<>>
             ELSE IF title # <<>> /\ link # NoLink
                  THEN <<[title |-> title, link |-> link]>> \o rest
                  ELSE rest

\* The loop of lines 135-188 over the elements given: an element whose
\* selectors raise is skipped, one with a title and a link is appended.
RECURSIVE ExtractLoop(_, _)
ExtractLoop(url, elements) ==
    IF elements = <<>> THEN <<>>
    ELSE LET el == Head(elements)
             title == strip(el.title)
             link == IF el.href # "" THEN urljoin(url, el.href) ELSE NoLink
             rest == ExtractLoop(url, Tail(elements))
         IN  IF el.raises THEN rest
             ELSE IF title # <<>> /\ link # NoLink
                  THEN <<[title |-> title, link |-> link]>> \o rest
                  ELSE rest

FirstN(s, n) == SubSeq(s, 1, IF Len(s) < n THEN Len(s) ELSE n)

\* for element in elements[:20]: ...
ExtractItems(url, elements) == ExtractLoop(url, FirstN(elements, ItemLimit))

\* What query_selector_all may find on a rendered page.
Contents ==
    { <<>>,
      <<Elem(<<"t1">>, "/a", FALSE), Elem(<<"t2">>, "/b", TRUE), Elem(<<>>, "/c", FALSE)>> }

\* Pages with up to MaxMatches matches: element i has its number as title and
\* the href "/p", except that the elements at the positions in `raising` raise,
\* those in `blank` have a title of white space only, those in `untitled` have
\* no title element and those in `unlinked` no href; every title is padded
\* with white space when `padded`.
PageOf(n, raising, blank, untitled, unlinked, padded) ==
    [i \in 1..n |->
        Elem(IF i \in untitled THEN <<>>
             ELSE IF i \in blank THEN <<" ", " ">>
             ELSE IF padded THEN <<" ", ToString(i), " ">>
             ELSE <<ToString(i)>>,
             IF i \in unlinked THEN "" ELSE "/p",
             i \in raising)]

Pages ==
    { PageOf(n, raising, blank, untitled, unlinked, padded) :
        n \in 0..MaxMatches,
        raising \in SUBSET {5, 12, 21},
        blank \in SUBSET {1, 20},
        untitled \in SUBSET {2, 22},
        unlinked \in SUBSET {3, 20},
        padded \in BOOLEAN }

\* ------------------------------------------------------------------ cache

Urls == {"", "a"}

\* md5(url + json.dumps(config)): one key per distinct text hashed.
CacheKey(url) == <<url, "config">>

Keys == {CacheKey(u) : u \in Urls \ {""}}

NoEntry == [data |-> <<>>, time |-> -1]

\* generate_rss: the items in order, under the feed's url, stamped with the
\* build time (lastBuildDate, and the published date of undated entries).
generate_rss(items, url, t) == <<items, url, t>>

CacheFreshInclusive(entry, t) == entry # NoEntry /\ (t - entry.time) <= CACHE_DURATION

\* cached and (now - cached["time"]) < CACHE_DURATION
CacheFresh(entry, t) == entry # NoEntry /\ (t - entry.time) < CACHE_DURATION

CacheHitBodyRebuilt(entry, t) == <<entry.data[1], entry.data[2], t>>

\* Response(cached["data"], ...)
CacheHitBody(entry, t) == entry.data

\* -------------------------------------------------------------- cache key
\* A text is the sequence of its tokens: the characters { } " \ : , and the
\* blank, and words.  A query parameter is given with a text, or not given.

Given(text) == [given |-> TRUE, text |-> text]

NotGiven == [given |-> FALSE, text |-> <<>>]

\* A config value: a text, or None.
Str(text) == [none |-> FALSE, text |-> text]

NoneValue == [none |-> TRUE, text |-> <<>>]

\* request.args.get(name, default)
ArgOr(arg, default) == IF arg.given THEN Str(arg.text) ELSE Str(default)

\* request.args.get(name)
ArgOrNone(arg) == IF arg.given THEN Str(arg.text) ELSE NoneValue

\* The config dict of lines 265-273, in the order of its keys.
ConfigOf(args) ==
    << <<"item_selector", ArgOr(args.item, <<"article">>)>>,
       <<"title_selector", ArgOr(args.title, <<"h2", ",", " ", "h3", ",", " ", "h4">>)>>,
       <<"link_selector", ArgOr(args.link, <<"a">>)>>,
       <<"description_selector", ArgOrNone(args.desc)>>,
       <<"image_selector", ArgOrNone(args.img)>>,
       <<"date_selector", ArgOrNone(args.date)>>,
       <<"date_format", ArgOr(args.datefmt, <<"%d-%m-%Y">>)>> >>

Unescaped(text) == text

\* json.dumps of the inside of a string: " and \ get a \ in front.
RECURSIVE Escaped(_)
Escaped(text) ==
    IF text = <<>> THEN <<>>
    ELSE IF Head(text) \in {"\"", "\\"}
         THEN <<"\\", Head(text)>> \o Escaped(Tail(text))
         ELSE <<Head(text)>> \o Escaped(Tail(text))

\* json.dumps of a value.
DumpValue(v) ==
    IF v.none THEN <<"null">> ELSE <<"\"">> \o Escaped(v.text) \o <<"\"">>

RECURSIVE DumpPairs(_)
DumpPairs(pairs) ==
    IF pairs = <<>> THEN <<>>
    ELSE <<"\"", Head(pairs)[1], "\"", ":", " ">> \o DumpValue(Head(pairs)[2])
         \o (IF Tail(pairs) = <<>> THEN <<>> ELSE <<",", " ">>)
         \o DumpPairs(Tail(pairs))

\* json.dumps(config)
json_dumps(config) == <<"{">> \o DumpPairs(config) \o <<"}">>

\* hashlib.md5(text).hexdigest(): the digest of a text, taken to differ for
\* texts that differ.
md5(text) == <<"md5", text>>

\* line 276
cache_key(url, config) == md5(url \o json_dumps(config))

\* A text that closes the string it stands in and opens the next key.
Closing(text, key, more) == text \o <<"\"", ",", " ", "\"", key, "\"", ":", " ", "\"">> \o more

\* The requests whose keys are compared: urls that are prefixes of one
\* another and that end in the first characters of a dumped config, and
\* parameters not given, given with their default, with "null", with quotes
\* and backslashes, and with the text of what follows them in the dump.
AskedUrls ==
    { <<"a">>, <<"a", "{">>, <<"a", "{", "\"">>, <<"a", "{", "\"", "item_selector">> }

AskedItems == { NotGiven, Given(<<"article">>), Given(<<"item_selector">>) }

AskedTitles ==
    { NotGiven, Given(<<"T">>), Given(Closing(<<"T">>, "link_selector", <<"L">>)) }

AskedLinks ==
    { NotGiven, Given(<<"X">>), Given(Closing(<<"L">>, "link_selector", <<"X">>)),
      Given(<<"X", "\\">>) }

AskedDescs == { NotGiven, Given(<<"null">>), Given(<<>>) }

Asked ==
    { [url |-> u, item |-> i, title |-> t, link |-> l, desc |-> d,
       img |-> NotGiven, date |-> NotGiven, datefmt |-> NotGiven] :
        u \in AskedUrls, i \in AskedItems, t \in AskedTitles, l \in AskedLinks,
        d \in AskedDescs }

\* ------------------------------------------------------------------- state

VARIABLES
    _browser,        \* the shared handle: None, or the id of the launched browser
    _playwright,     \* the shared driver: None, or the id of the started driver
    _browser_lock,   \* the thread holding _browser_lock, or NoThread
    cache,           \* cache: key -> {"data", "time"}
    connected,       \* the handles whose is_connected() is true
    now,             \* the wall clock, in seconds
    browsers,        \* the browsers launched and not yet close()d
    drivers,         \* the drivers started and not yet stop()ped
    exited,          \* the interpreter has exited
    T,               \* per thread: position in its handler and its locals
    dead,            \* history: handles not yet torn down whose probe failed or that
                     \* raised a crash-classified error
    served,          \* history: per key, the bodies answered from the entry now in the cache
    matched,         \* one call of _scrape_page on its own: the elements matched
    scraped,         \* and whether it has returned, and the items it returned
    asked,           \* two /feed requests on their own: their query parameters
    keyed            \* and whether their cache keys are computed, and the keys

vars == <<_browser, _playwright, _browser_lock, cache, now, connected, browsers,
          drivers, exited, T, dead, served, matched, scraped, asked, keyed>>

\* The variables of the call of _scrape_page and of the key computation taken
\* on their own.
Lab == <<matched, scraped, asked, keyed>>

NotScraped == [done |-> FALSE, items |-> <<>>]

NotKeyed == [done |-> FALSE, keys |-> <<>>]

NoResp == [status |-> 0, text |-> "", data |-> <<>>]

Resp(status, text, data) == [status |-> status, text |-> text, data |-> data]

\* A thread between requests.
IdleThread ==
    [pc |-> "idle", kind |-> "none", url |-> "", attempt |-> 0,
     browser |-> None, page |-> None, e |-> NoErr, items |-> <<>>,
     frRet |-> "none", after |-> "none", resp |-> NoResp,
     trace |-> <<>>, hit |-> FALSE]

\* One entry of a request's history.
Ev(ev, arg) == [ev |-> ev, arg |-> arg]

Log(s, ev, arg) == Append(s.trace, Ev(ev, arg))

InitProgram ==
    /\ _browser = None
    /\ _playwright = None
    /\ _browser_lock = NoThread
    /\ cache = [k \in Keys |-> NoEntry]
    /\ now = 0
    /\ connected = {}
    /\ browsers = {}
    /\ drivers = {}
    /\ exited = FALSE
    /\ T = [t \in Threads |-> IdleThread]
    /\ dead = {}
    /\ served = [k \in Keys |-> {}]

Init ==
    /\ InitProgram
    /\ matched = <<>>
    /\ scraped = NotScraped
    /\ asked = <<>>
    /\ keyed = NotKeyed

Set(t, s) == T' = [T EXCEPT ![t] = s]

\* ------------------------------------------------- control-flow helpers

\* for attempt in range(...): the next iteration.
NextAttempt(s) ==
    [s EXCEPT !.pc = "get_browser", !.attempt = s.attempt + 1, !.e = NoErr,
              !.after = "none", !.frRet = "none",
              !.trace = Log(s, "attempt", s.attempt + 1)]

\* Where control goes once a finally block is through.
Jump(s, target) ==
    IF target = "retry" THEN NextAttempt(s)
    ELSE [s EXCEPT !.pc = target, !.after = "none"]

FinallySkipsClose(s, target) == Jump(s, target)

\* finally: page.close(), when the attempt opened a page; then on to target.
Finally(s, target) ==
    IF s.page # None
    THEN [s EXCEPT !.pc = "close_page", !.after = target]
    ELSE Jump(s, target)

\* An operation of an attempt raised err.  _scrape_page runs its finally and
\* lets the error reach scrape_js_website's except clause; in debug_page the
\* except clause runs first and the finally after it.
Raise(s, err) ==
    IF s.kind = "feed"
    THEN Finally([s EXCEPT !.e = err, !.browser = None], "handler")
    ELSE [s EXCEPT !.e = err, !.pc = "handler"]

\* The handles an operation's failure shows to be dead.
Killed(s, err) == IF _is_browser_crash(err) THEN {s.browser} ELSE {}

\* ------------------------------------------------------- request entry

Browser == <<_browser, _playwright, connected, browsers, drivers>>

\* /feed, up to the cache check (lines 261-280): 400 without a url, the cached
\* body when the entry is fresh, otherwise on to scrape_js_website.
FeedRequest(t) ==
    /\ ~exited
    /\ T[t].pc = "idle"
    /\ \E url \in Urls :
         LET s == [IdleThread EXCEPT !.kind = "feed", !.url = url] IN
         IF url = ""
         THEN /\ Set(t, [s EXCEPT !.pc = "done",
                                  !.resp = Resp(400, "Missing 'url' parameter", <<>>)])
              /\ served' = served
         ELSE LET cached == cache[CacheKey(url)]
              IN  IF CacheFresh(cached, now)
                  THEN /\ Set(t, [s EXCEPT !.pc = "done", !.hit = TRUE,
                                           !.resp = Resp(200, "", CacheHitBody(cached, now))])
                       /\ served' = [served EXCEPT ![CacheKey(url)] =
                                        @ \cup {CacheHitBody(cached, now)}]
                  ELSE /\ Set(t, [s EXCEPT !.pc = "acquire"])
                       /\ served' = served
    /\ UNCHANGED <<Lab, Browser, _browser_lock, cache, now, exited, dead>>

\* /debug, up to the lock (lines 313-315).
DebugRequest(t) ==
    /\ ~exited
    /\ T[t].pc = "idle"
    /\ \E url \in Urls :
         LET s == [IdleThread EXCEPT !.kind = "debug", !.url = url] IN
         IF url = ""
         THEN Set(t, [s EXCEPT !.pc = "done",
                               !.resp = Resp(400, "Missing 'url' parameter", <<>>)])
         ELSE Set(t, [s EXCEPT !.pc = "acquire"])
    /\ UNCHANGED <<Lab, Browser, _browser_lock, cache, now, exited, dead, served>>

LockAlwaysFree == TRUE

\* threading.Lock: acquire() returns only while no thread holds the lock.
LockFree == _browser_lock = NoThread

AcquireWithoutWaiting(t) ==
    /\ T[t].pc = "acquire"
    /\ _browser_lock' = t
    /\ Set(t, NextAttempt(T[t]))
    /\ UNCHANGED <<Lab, Browser, cache, now, exited, dead, served>>

\* with _browser_lock: the thread blocks until the lock is free, takes it and
\* enters the first attempt.
Acquire(t) ==
    /\ T[t].pc = "acquire"
    /\ LockFree
    /\ _browser_lock' = t
    /\ Set(t, NextAttempt(T[t]))
    /\ UNCHANGED <<Lab, Browser, cache, now, exited, dead, served>>

\* ------------------------------------------------------ lifecycle manager

\* Entering _force_restart_browser from `via` ("get": _get_browser, "retry":
\* the except clause of a handler).
EnterRestart(s, via) ==
    [s EXCEPT !.pc = "fr_teardown", !.frRet = via, !.trace = Log(s, "relaunch", via)]

\* _get_browser: the shared handle when it answers the liveness probe,
\* otherwise a relaunch.
GetBrowser(t) ==
    /\ T[t].pc = "get_browser"
    /\ IF _browser # None /\ _browser \in connected
       THEN /\ Set(t, [T[t] EXCEPT !.pc = "new_page", !.browser = _browser])
            /\ dead' = dead
       ELSE /\ Set(t, EnterRestart(T[t], "get"))
            /\ dead' = dead \cup (IF _browser # None THEN {_browser} ELSE {})
    /\ UNCHANGED <<Lab, Browser, _browser_lock, cache, now, exited, served>>

\* An exception leaves _force_restart_browser.  Called from _get_browser it is
\* the attempt's failure; raised inside a handler's except clause it leaves
\* the handler (after debug_page's finally), and the with block with it.
RestartRaisesSkipsRelease(s, err) ==
    IF s.frRet = "get"
    THEN [s EXCEPT !.pc = "handler", !.e = err, !.frRet = "none"]
    ELSE [s EXCEPT !.pc = IF s.kind = "feed" THEN "respond" ELSE "done",
                   !.e = err, !.frRet = "none", !.page = None,
                   !.resp = IF s.kind = "feed" THEN NoResp
                            ELSE Resp(500, "Internal Server Error", <<>>)]

RestartRaises(s, err) ==
    IF s.frRet = "get"
    THEN [s EXCEPT !.pc = "handler", !.e = err, !.frRet = "none"]
    ELSE IF s.kind = "feed"
         THEN [s EXCEPT !.pc = "release", !.e = err, !.frRet = "none"]
         ELSE Finally([s EXCEPT !.e = err, !.frRet = "none",
                                !.resp = Resp(500, "Internal Server Error", <<>>)],
                      "release")

\* _force_restart_browser returned.
RestartReturns(s, h) ==
    IF s.frRet = "get"
    THEN [s EXCEPT !.pc = "new_page", !.browser = h, !.frRet = "none"]
    ELSE IF s.kind = "feed"
         THEN NextAttempt(s)
         ELSE Finally(s, "retry")

NotSwallowed(err) == err

\* try: ... except Exception: pass -- what is left of an error the call raised.
Swallowed(err) == IF IsInstance(err.cls, "Exception") THEN NoErr ELSE err

\* The shared handle and what it refers to.
Handles ==
    [browser |-> _browser, playwright |-> _playwright,
     connected |-> connected, browsers |-> browsers, drivers |-> drivers]

\* What close() and stop() do on the handle of st: both return on a browser
\* that answers; on one that is gone either may raise instead.
TeardownOutcomes(st) ==
    IF st.browser \in st.connected
    THEN {<<NoErr, NoErr>>}
    ELSE {NoErr, CloseFail} \X {NoErr, StopFail}

\* _force_restart_browser, lines 69-80, on st when close() ends with closeErr
\* and stop() with stopErr: the state it leaves and the error that leaves it.
Teardown(st, closeErr, stopErr) ==
    LET e1 == IF st.browser # None THEN Swallowed(closeErr) ELSE NoErr
        closed == [st EXCEPT !.browsers = @ \ {st.browser},
                             !.connected = @ \ {st.browser}]
        st1 == IF st.browser = None THEN st
               ELSE IF e1 = NoErr THEN [closed EXCEPT !.browser = None]
               ELSE closed
        e2 == IF e1 = NoErr /\ st.playwright # None THEN Swallowed(stopErr) ELSE e1
        stopped == [st1 EXCEPT !.drivers = @ \ {st.playwright}]
        st2 == IF e1 # NoErr \/ st.playwright = None THEN st1
               ELSE IF e2 = NoErr THEN [stopped EXCEPT !.playwright = None]
               ELSE stopped
    IN  [st |-> st2, raised |-> e2]

FrTeardownKeepsOld(t) ==
    /\ T[t].pc = "fr_teardown"
    /\ _browser' = None
    /\ _playwright' = None
    /\ dead' = dead \ {_browser}
    /\ Set(t, [T[t] EXCEPT !.pc = "fr_start"])
    /\ UNCHANGED <<Lab, browsers, connected, drivers, _browser_lock, cache, now,
                   exited, served>>

\* _force_restart_browser, lines 66-80: close the old browser, stop the old
\* driver (errors swallowed), and clear both globals.
FrTeardown(t) ==
    /\ T[t].pc = "fr_teardown"
    /\ \E r \in {Teardown(Handles, out[1], out[2]) : out \in TeardownOutcomes(Handles)} :
         /\ _browser' = r.st.browser
         /\ _playwright' = r.st.playwright
         /\ browsers' = r.st.browsers
         /\ connected' = r.st.connected
         /\ drivers' = r.st.drivers
         /\ Set(t, IF r.raised = NoErr THEN [T[t] EXCEPT !.pc = "fr_start"]
                   ELSE RestartRaises(T[t], r.raised))
    /\ dead' = dead \ {_browser}
    /\ UNCHANGED <<Lab, _browser_lock, cache, now, exited, served>>

\* The names still referred to by a global, a local or the environment.
UsedHandles ==
    {_browser, _playwright} \cup connected \cup browsers \cup drivers \cup dead
        \cup {T[t].browser : t \in Threads} \cup {T[t].page : t \in Threads}

FreeHandles == (1..NumHandles) \ UsedHandles

FreshHandle == CHOOSE h \in FreeHandles : \A g \in FreeHandles : h <= g

\* line 82: sync_playwright().start(), a new driver.
FrStart(t) ==
    /\ T[t].pc = "fr_start"
    /\ \/ /\ FreeHandles # {}
          /\ _playwright' = FreshHandle
          /\ drivers' = drivers \cup {FreshHandle}
          /\ Set(t, [T[t] EXCEPT !.pc = "fr_launch"])
       \/ /\ \E err \in StartErrors : Set(t, RestartRaises(T[t], err))
          /\ UNCHANGED <<_playwright, drivers>>
    /\ UNCHANGED <<Lab, _browser, connected, browsers, _browser_lock, cache, now,
                   exited, dead, served>>

\* lines 83-87: _playwright.chromium.launch(...), a new browser on the driver
\* (the pair goes by one name).
FrLaunch(t) ==
    /\ T[t].pc = "fr_launch"
    /\ \/ /\ _browser' = _playwright
          /\ connected' = connected \cup {_playwright}
          /\ browsers' = browsers \cup {_playwright}
          /\ Set(t, RestartReturns(T[t], _playwright))
       \/ /\ \E err \in LaunchErrors : Set(t, RestartRaises(T[t], err))
          /\ UNCHANGED <<_browser, connected, browsers>>
    /\ UNCHANGED <<Lab, _playwright, drivers, _browser_lock, cache, now,
                   exited, dead, served>>

ShutdownUnguarded(st, closeErr, stopErr) ==
    LET e1 == IF st.browser # None THEN closeErr ELSE NoErr
        e2 == IF e1 = NoErr /\ st.playwright # None THEN stopErr ELSE e1
    IN  [st |-> [st EXCEPT !.browsers = @ \ {st.browser},
                           !.connected = @ \ {st.browser},
                           !.drivers = @ \ {st.playwright}],
         raised |-> e2]

\* _shutdown_browser on st when close() ends with closeErr and stop() with
\* stopErr: the state it leaves and the error that leaves it.  It clears no
\* global.
Shutdown(st, closeErr, stopErr) ==
    LET e1 == IF st.browser # None THEN Swallowed(closeErr) ELSE NoErr
        st1 == IF st.browser = None THEN st
               ELSE [st EXCEPT !.browsers = @ \ {st.browser},
                               !.connected = @ \ {st.browser}]
        e2 == IF e1 = NoErr /\ st.playwright # None THEN Swallowed(stopErr) ELSE e1
        st2 == IF e1 # NoErr \/ st.playwright = None THEN st1
               ELSE [st1 EXCEPT !.drivers = @ \ {st.playwright}]
    IN  [st |-> st2, raised |-> e2]

\* _shutdown_browser, run by the exiting interpreter: it takes no lock.
_shutdown_browser ==
    \E r \in {Shutdown(Handles, out[1], out[2]) : out \in TeardownOutcomes(Handles)} :
        /\ _browser' = r.st.browser
        /\ _playwright' = r.st.playwright
        /\ browsers' = r.st.browsers
        /\ connected' = r.st.connected
        /\ drivers' = r.st.drivers

\* atexit.register(_shutdown_browser): the interpreter exits, at any moment,
\* and runs _shutdown_browser on its way out.  The process is gone after it,
\* and with it the handler threads and the lock; the globals and the cache
\* are left as they were.
Exit ==
    /\ ~exited
    /\ _shutdown_browser
    /\ exited' = TRUE
    /\ _browser_lock' = NoThread
    /\ T' = [t \in Threads |-> IdleThread]
    /\ dead' = {}
    /\ UNCHANGED <<Lab, cache, served, now>>

\* The render process dies on its own: the handle stops answering the probe.
Crash ==
    /\ ~exited
    /\ _browser \in connected
    /\ connected' = connected \ {_browser}
    /\ UNCHANGED <<Lab, _browser, _playwright, browsers, drivers, _browser_lock,
                   cache, now, exited, T, dead, served>>

\* ------------------------------------------------------------ one attempt

Rest == <<Lab, Browser, _browser_lock, cache, now, exited, served>>

\* browser.new_page(): a page on the handle _get_browser returned; on a
\* browser that is gone, the error that says so.
NewPage(t) ==
    /\ T[t].pc = "new_page"
    /\ IF T[t].browser \in connected
       THEN /\ Set(t, [T[t] EXCEPT !.pc = "goto", !.page = T[t].browser,
                                   !.trace = Log(T[t], "open", T[t].browser)])
            /\ dead' = dead
       ELSE /\ Set(t, Raise(T[t], NewPageClosed))
            /\ dead' = dead \cup Killed(T[t], NewPageClosed)
    /\ UNCHANGED Rest

\* page.goto(url, timeout=60000) and the 5 s settle wait.  On a connected
\* browser the page loads, the navigation times out, or the page dies; on a
\* browser that is gone the call fails with the error that says so.
Goto(t) ==
    /\ T[t].pc = "goto"
    /\ \E err \in (IF T[t].browser \in connected THEN GotoErrors \cup {NoErr}
                                                ELSE {NavClosed}) :
         IF err = NoErr
         THEN /\ Set(t, [T[t] EXCEPT !.pc = "extract"])
              /\ dead' = dead
         ELSE /\ Set(t, Raise(T[t], err))
              /\ dead' = dead \cup Killed(T[t], err)
    /\ UNCHANGED Rest

\* The rest of the try block.  _scrape_page: query_selector_all and the
\* extraction loop, then return items through the finally.  debug_page:
\* page.content() and the selector counts, then return the HTML.
Extract(t) ==
    /\ T[t].pc = "extract"
    /\ \/ /\ T[t].browser \in connected
          /\ \E elements \in Contents :
               LET s == T[t]
                   items == IF s.kind = "feed" THEN ExtractItems(s.url, elements) ELSE <<>>
                   r == [s EXCEPT !.items = items, !.trace = Log(s, "ok", items),
                                  !.resp = IF s.kind = "feed" THEN NoResp
                                           ELSE Resp(200, "html", <<>>)]
               IN  Set(t, Finally(r, "release"))
          /\ dead' = dead
       \/ \E err \in (IF T[t].browser \in connected THEN QueryErrors ELSE {QueryClosed}) :
            /\ Set(t, Raise(T[t], err))
            /\ dead' = dead \cup Killed(T[t], err)
    /\ UNCHANGED Rest

\* finally: try: page.close() except Exception: pass
ClosePage(t) ==
    /\ T[t].pc = "close_page"
    /\ LET s == T[t] IN
       Set(t, Jump([s EXCEPT !.page = None, !.trace = Log(s, "close", s.page)], s.after))
    /\ UNCHANGED <<Rest, dead>>

\* --------------------------------------------------------- except clauses

ScrapeExceptRetriesWithoutRelaunch(s) ==
    LET r == [s EXCEPT !.trace = Log(s, "fail", s.e)] IN
    IF s.attempt < max_attempts /\ _is_browser_crash(s.e)
    THEN NextAttempt(r)
    ELSE [r EXCEPT !.pc = "release"]

\* scrape_js_website, lines 210-215.
ScrapeExcept(s) ==
    LET r == [s EXCEPT !.trace = Log(s, "fail", s.e)] IN
    IF s.attempt < max_attempts /\ _is_browser_crash(s.e)
    THEN EnterRestart(r, "retry")
    ELSE [r EXCEPT !.pc = "release"]

\* debug_page, lines 356-364.
DebugExcept(s) ==
    LET r == [s EXCEPT !.trace = Log(s, "fail", s.e)] IN
    IF IsInstance(s.e.cls, "TimeoutError")
    THEN Finally([r EXCEPT !.resp = Resp(504, "Debug timed out", <<>>)], "release")
    ELSE IF s.attempt < debug_attempts /\ _is_browser_crash(s.e)
         THEN EnterRestart(r, "retry")
         ELSE Finally([r EXCEPT !.resp = Resp(500, "Error", <<>>)], "release")

Handler(t) ==
    /\ T[t].pc = "handler"
    /\ Set(t, IF T[t].kind = "feed" THEN ScrapeExcept(T[t]) ELSE DebugExcept(T[t]))
    /\ UNCHANGED <<Rest, dead>>

\* What is left of a request's locals once the with block is left:
\* scrape_js_website hands its items or its error to create_feed, debug_page
\* has its response.
Returned(s) ==
    IF s.kind = "feed"
    THEN [IdleThread EXCEPT !.pc = "respond", !.kind = s.kind, !.url = s.url,
                            !.page = s.page, !.e = s.e, !.items = s.items]
    ELSE [IdleThread EXCEPT !.pc = "done", !.kind = s.kind, !.url = s.url,
                            !.page = s.page, !.resp = s.resp]

\* Leaving the with block releases the lock.
Release(t) ==
    /\ T[t].pc = "release"
    /\ _browser_lock' = NoThread
    /\ Set(t, Returned(T[t]))
    /\ UNCHANGED <<Lab, Browser, cache, now, exited, dead, served>>

\* create_feed's except clauses, lines 285-297.
FeedErrorStatus(e) ==
    IF IsInstance(e.cls, "TimeoutError") THEN 504
    ELSE IF IsInstance(e.cls, "PlaywrightError") THEN 503
    ELSE 500

RespondCachesEmptyFeed(t) ==
    /\ T[t].pc = "respond"
    /\ LET s == T[t]
           k == CacheKey(s.url)
           rss == generate_rss(s.items, s.url, now)
       IN  IF s.e # NoErr
           THEN /\ Set(t, [s EXCEPT !.pc = "done", !.e = NoErr,
                                    !.resp = Resp(FeedErrorStatus(s.e), "error", <<>>)])
                /\ UNCHANGED <<cache, served>>
           ELSE /\ cache' = [cache EXCEPT ![k] = [data |-> rss, time |-> now]]
                /\ served' = [served EXCEPT ![k] = {rss}]
                /\ Set(t, [s EXCEPT !.pc = "done", !.items = <<>>,
                                    !.resp = IF s.items = <<>>
                                             THEN Resp(404, "No items found", <<>>)
                                             ELSE Resp(200, "", rss)])
    /\ UNCHANGED <<Lab, Browser, _browser_lock, now, exited, dead>>

\* create_feed, lines 285-307: the status of a failure, 404 without items,
\* otherwise the feed, stored in the cache and returned.
Respond(t) ==
    /\ T[t].pc = "respond"
    /\ LET s == T[t]
           k == CacheKey(s.url)
           rss == generate_rss(s.items, s.url, now)
       IN  IF s.e # NoErr
           THEN /\ Set(t, [s EXCEPT !.pc = "done", !.e = NoErr,
                                    !.resp = Resp(FeedErrorStatus(s.e), "error", <<>>)])
                /\ UNCHANGED <<cache, served>>
           ELSE IF s.items = <<>>
           THEN /\ Set(t, [s EXCEPT !.pc = "done",
                                    !.resp = Resp(404, "No items found", <<>>)])
                /\ UNCHANGED <<cache, served>>
           ELSE /\ cache' = [cache EXCEPT ![k] = [data |-> rss, time |-> now]]
                /\ served' = [served EXCEPT ![k] = {rss}]
                /\ Set(t, [s EXCEPT !.pc = "done", !.items = <<>>,
                                    !.resp = Resp(200, "", rss)])
    /\ UNCHANGED <<Lab, Browser, _browser_lock, now, exited, dead>>

\* The response is sent; the thread is free for the next request.
Finish(t) ==
    /\ T[t].pc = "done"
    /\ Set(t, IdleThread)
    /\ UNCHANGED <<Rest, dead>>

\* Time passes.
Tick ==
    /\ ~exited
    /\ now + ClockStep <= MaxNow
    /\ now' = now + ClockStep
    /\ UNCHANGED <<Lab, Browser, _browser_lock, cache, exited, T, dead, served>>

Next ==
    \/ \E t \in Threads :
         \/ FeedRequest(t)
         \/ DebugRequest(t)
         \/ Acquire(t)
         \/ GetBrowser(t)
         \/ FrTeardown(t)
         \/ FrStart(t)
         \/ FrLaunch(t)
         \/ NewPage(t)
         \/ Goto(t)
         \/ Extract(t)
         \/ ClosePage(t)
         \/ Handler(t)
         \/ Release(t)
         \/ Respond(t)
         \/ Finish(t)
    \/ Tick
    \/ Crash
    \/ Exit

Spec == Init /\ [][Next]_vars

\* ---------------------------------------------------------------- progress
\* The program under the scheduling its progress rests on: every call a thread
\* makes inside the with block (a browser operation, the launch, the close of
\* a page) returns or raises, the thread then goes on, and a thread that waits
\* for a lock that is free again and again gets it.  Requests arrive as they
\* please.

Work(t) ==
    \/ GetBrowser(t)
    \/ FrTeardown(t)
    \/ FrStart(t)
    \/ FrLaunch(t)
    \/ NewPage(t)
    \/ Goto(t)
    \/ Extract(t)
    \/ ClosePage(t)
    \/ Handler(t)
    \/ Release(t)
    \/ Respond(t)

\* The steps of the handlers while the interpreter runs; the clock stands
\* still, and the browser fails through the errors its operations raise.
LiveNext ==
    \E t \in Threads :
        \/ FeedRequest(t)
        \/ DebugRequest(t)
        \/ Acquire(t)
        \/ Work(t)
        \/ Finish(t)

LiveSpec ==
    /\ Init
    /\ [][LiveNext]_vars
    /\ \A t \in Threads : WF_vars(Work(t)) /\ SF_vars(Acquire(t))

\* ------------------------------------------ _scrape_page's extraction alone
\* One call of _scrape_page whose navigation succeeded, on every page of Pages:
\* the program is at rest and the call runs lines 133-196.

Program == <<Browser, _browser_lock, cache, now, exited, T, dead, served>>

ExtractInit ==
    /\ InitProgram
    /\ matched \in Pages
    /\ scraped = NotScraped
    /\ asked = <<>>
    /\ keyed = NotKeyed

\* elements = page.query_selector_all(...) found `matched`; the loop runs and
\* the call returns items.
ScrapePage ==
    /\ ~scraped.done
    /\ \E url \in Urls \ {""} :
         scraped' = [done |-> TRUE, items |-> ExtractItems(url, matched)]
    /\ UNCHANGED <<matched, asked, keyed, Program>>

ExtractNext == ScrapePage

ExtractSpec == ExtractInit /\ [][ExtractNext]_vars

\* --------------------------------------------------- /feed's cache key alone
\* Two /feed requests with a url, up to line 276.

KeyInit ==
    /\ InitProgram
    /\ matched = <<>>
    /\ scraped = NotScraped
    /\ asked \in Asked \X Asked
    /\ keyed = NotKeyed

\* lines 261-276 of both requests.
ComputeKeys ==
    /\ ~keyed.done
    /\ keyed' = [done |-> TRUE,
                 keys |-> [i \in 1..2 |-> cache_key(asked[i].url, ConfigOf(asked[i]))]]
    /\ UNCHANGED <<matched, scraped, asked, Program>>

KeyNext == ComputeKeys

KeySpec == KeyInit /\ [][KeyNext]_vars

\* ---------------------------------------------------------------- histories

Select(tr, evs) == SelectSeq(tr, LAMBDA x : x.ev \in evs)

\* The attempts' results, in order.
Outcomes(s) == Select(s.trace, {"ok", "fail"})

Attempts(s) == Len(Select(s.trace, {"attempt"}))

Relaunches(s) == Len(Select(s.trace, {"relaunch"}))

RetryRelaunches(s) ==
    Len(SelectSeq(s.trace, LAMBDA x : x.ev = "relaunch" /\ x.arg = "retry"))

CrashFail(x) == x.ev = "fail" /\ _is_browser_crash(x.arg)

\* Positions of a thread that is inside a with _browser_lock block.
FrPcs == {"fr_teardown", "fr_start", "fr_launch"}

LockPcs == FrPcs \cup {"get_browser", "new_page", "goto", "extract", "close_page",
                       "handler", "release"}

\* scrape_js_website is about to return or raise.
ScrapeEnds(t) == T[t].kind = "feed" /\ T[t].pc = "release"

\* ------------------------------------------------------------------- claims

\* C1, its case: the first attempt of a scrape failed with a crash-classified
\* error and the second succeeded.
C1_CrashThenSuccess(t) ==
    /\ ScrapeEnds(t)
    /\ Len(Outcomes(T[t])) = 2
    /\ CrashFail(Outcomes(T[t])[1])
    /\ Outcomes(T[t])[2].ev = "ok"

\* C1 as stated: after a crash-classified first failure and a successful
\* second attempt the call returns the second attempt's items and
\* _force_restart_browser ran exactly once during the call, counting the runs
\* made through _get_browser.
C1_RelaunchedExactlyOnce ==
    \A t \in Threads :
        C1_CrashThenSuccess(t) =>
            /\ T[t].e = NoErr
            /\ T[t].items = Outcomes(T[t])[2].arg
            /\ Relaunches(T[t]) = 1

\* C1 amended: the call returns the second attempt's items, the retry path ran
\* _force_restart_browser exactly once, right after the failure, and with the
\* runs made through _get_browser the total is one, two or three.
C1_RetryRelaunchedOnce ==
    \A t \in Threads :
        C1_CrashThenSuccess(t) =>
            /\ T[t].e = NoErr
            /\ T[t].items = Outcomes(T[t])[2].arg
            /\ RetryRelaunches(T[t]) = 1
            /\ \E i \in 1..(Len(T[t].trace) - 1) :
                   /\ T[t].trace[i].ev = "fail"
                   /\ T[t].trace[i + 1] = Ev("relaunch", "retry")
            /\ Relaunches(T[t]) \in 1..3

C1_Witness == \E t \in Threads : C1_CrashThenSuccess(t)

\* C2, its case: both attempts of a scrape failed with crash-classified errors.
C2_TwoCrashes(t) ==
    /\ T[t].kind = "feed"
    /\ Len(Outcomes(T[t])) >= 2
    /\ CrashFail(Outcomes(T[t])[1])
    /\ CrashFail(Outcomes(T[t])[2])

\* C2: after two crash-classified failures the call raises the second error
\* unchanged, exactly two attempts were made, and nothing (no relaunch, no
\* third attempt) follows the second failure.
C2_SecondCrashSurfaces ==
    \A t \in Threads :
        C2_TwoCrashes(t) =>
            /\ T[t].pc = "release"
            /\ Len(Outcomes(T[t])) = 2
            /\ Attempts(T[t]) = 2
            /\ T[t].e = Outcomes(T[t])[2].arg
            /\ T[t].trace[Len(T[t].trace)] = Outcomes(T[t])[2]
            /\ RetryRelaunches(T[t]) = 1

C2_Witness == \E t \in Threads : C2_TwoCrashes(t)

\* C3 as stated: a first attempt of a scrape that fails with a navigation
\* timeout, or with an error that is not crash-classified, is the only
\* attempt: the error is raised at once and no relaunch is forced.
C3_TimeoutNeverRetried ==
    \A t \in Threads :
        ( /\ T[t].kind = "feed"
          /\ Len(Outcomes(T[t])) >= 1
          /\ Outcomes(T[t])[1].ev = "fail"
          /\ \/ Outcomes(T[t])[1].arg = NavTimeout
             \/ ~_is_browser_crash(Outcomes(T[t])[1].arg) )
        => /\ T[t].pc = "release"
           /\ Attempts(T[t]) = 1
           /\ T[t].e = Outcomes(T[t])[1].arg
           /\ RetryRelaunches(T[t]) = 0

\* C4: a thread that is anywhere between acquiring the handle and leaving the
\* with block, or that has a page open, holds _browser_lock; so at most one
\* request is there at a time.
C4_ScrapesSerialized ==
    /\ \A t \in Threads : (T[t].pc \in LockPcs \/ T[t].page # None) => _browser_lock = t
    /\ Cardinality({t \in Threads : T[t].pc \in LockPcs}) <= 1

C4_Witness ==
    \E t, u \in Threads :
        /\ t # u
        /\ T[t].page # None
        /\ T[t].kind = "feed"
        /\ T[u].pc = "acquire"
        /\ T[u].kind = "debug"

\* A step that tears down, launches or reassigns the shared handle.
HandleStep ==
    \/ _browser' # _browser
    \/ _playwright' # _playwright
    \/ browsers' # browsers
    \/ drivers' # drivers

\* C5 as stated: every step that tears down, launches or reassigns the shared
\* handle is taken by the thread that holds _browser_lock.
C5_HandleStepsUnderLock ==
    [][HandleStep =>
          /\ _browser_lock # NoThread
          /\ T[_browser_lock].pc \in FrPcs
          /\ T'[_browser_lock].pc # T[_browser_lock].pc]_vars

\* C6: no two threads are inside _force_restart_browser at once.
C6_OneRelaunchAtATime ==
    Cardinality({t \in Threads : T[t].pc \in FrPcs}) <= 1

C6_Witness ==
    \E t, u \in Threads :
        /\ t # u
        /\ T[t].pc = "fr_launch"
        /\ T[t].frRet = "retry"
        /\ T[u].pc = "acquire"

\* C7 as stated: the handle _get_browser returns, on which the page is then
\* opened, is never one whose probe failed or that raised a crash-classified
\* error.
C7_DeadHandleNeverReused ==
    \A t \in Threads : T[t].pc = "new_page" => T[t].browser \notin dead

\* Every page the request opened has had its close attempted since: each
\* page.close() is on the one page opened and not yet closed, and none is left.
PagesClosed(tr) ==
    LET pages == Select(tr, {"open", "close"}) IN
    /\ Len(pages) % 2 = 0
    /\ \A i \in 1..Len(pages) :
          IF i % 2 = 1 THEN pages[i].ev = "open"
          ELSE pages[i] = Ev("close", pages[i - 1].arg)

\* C8: when a request leaves the with block every page it opened has had its
\* close attempted, and a thread outside the block has no page.
C8_PagesClosedBeforeRelease ==
    \A t \in Threads :
        /\ T[t].pc = "release" => T[t].page = None /\ PagesClosed(T[t].trace)
        /\ T[t].pc \notin LockPcs => T[t].page = None

C8_Witness ==
    \E t \in Threads :
        /\ T[t].pc = "release"
        /\ T[t].kind = "debug"
        /\ Len(Select(T[t].trace, {"open"})) = 2
        /\ Len(Select(T[t].trace, {"close"})) = 2

\* C9: a /feed request with a url is answered from the cache, taking no lock
\* and starting no scrape, exactly when the cache holds an entry for its key
\* whose age is under 600 s; otherwise it goes on to scrape.
C9_CacheHitIffFresh ==
    [][\A t \in Threads :
          (T[t].pc = "idle" /\ T'[t].pc # "idle" /\ T'[t].kind = "feed" /\ T'[t].url # "")
          => LET entry == cache[CacheKey(T'[t].url)]
                 fresh == entry # NoEntry /\ now - entry.time < CACHE_DURATION
             IN  IF fresh
                 THEN /\ T'[t].pc = "done"
                      /\ T'[t].resp = Resp(200, "", entry.data)
                      /\ T'[t].trace = <<>>
                      /\ _browser_lock' = _browser_lock
                 ELSE T'[t].pc = "acquire"]_vars

C9_Witness ==
    \E t \in Threads :
        /\ T[t].pc = "done"
        /\ T[t].hit
        /\ T[t].resp.status = 200
        /\ now - cache[CacheKey(T[t].url)].time = ClockStep

\* C10: all the bodies answered for a key since its entry was last written,
\* the writer's own included, are the same.
C10_SameOutputBetweenWrites ==
    \A k \in Keys : Cardinality(served[k]) <= 1

C10_Witness ==
    \E t, u \in Threads :
        /\ t # u
        /\ T[t].pc = "done" /\ T[t].hit
        /\ T[u].pc = "done" /\ ~T[u].hit /\ T[u].kind = "feed"
        /\ T[u].resp.status = 200
        /\ T[t].url = T[u].url
        /\ T[t].resp = T[u].resp

\* The error is a timeout: Python's own TimeoutError, or the one Playwright
\* raises when an operation exceeds its time limit.
IsTimeout(e) == e.cls \in {"TimeoutError", "PlaywrightTimeoutError"}

\* The status /feed owes to the outcome of its scrape.
FeedStatusOwed(e, items) ==
    IF e # NoErr
    THEN IF IsTimeout(e) THEN 504
         ELSE IF e.cls = "PlaywrightError" THEN 503
         ELSE 500
    ELSE IF items = <<>> THEN 404 ELSE 200

\* C11 as stated: /feed answers 400 without a url, before any cache lookup,
\* lock acquisition or browser launch; 200 on a cache hit or a scrape with at
\* least one item; 404 when the scrape returns no item; 504 when the scrape
\* fails with a timeout; 503 when it fails with a browser error; 500 for any
\* other failure.
C11_StatusByOutcome ==
    [][\A t \in Threads :
          /\ (T[t].pc = "idle" /\ T'[t].kind = "feed" /\ T'[t].url = "")
             => /\ T'[t].pc = "done"
                /\ T'[t].resp.status = 400
                /\ ~T'[t].hit
                /\ UNCHANGED <<Browser, _browser_lock, cache>>
          /\ (T[t].pc = "idle" /\ T'[t].kind = "feed" /\ T'[t].hit)
             => T'[t].resp.status = 200
          /\ (T[t].pc = "respond" /\ T'[t].pc = "done")
             => T'[t].resp.status = FeedStatusOwed(T[t].e, T[t].items)]_vars

\* C12: the list _scrape_page returns has at most 20 items and each has a
\* title that is not empty (nor white space at either end) and a link that is
\* not empty.
C12_ItemsBoundedAndComplete ==
    scraped.done =>
        /\ Len(scraped.items) <= 20
        /\ \A i \in 1..Len(scraped.items) :
              LET item == scraped.items[i] IN
              /\ item.title # <<>>
              /\ Head(item.title) # " "
              /\ item.title[Len(item.title)] # " "
              /\ item.link # <<>>
              /\ item.link[2] # ""

C12_Witness ==
    /\ scraped.done
    /\ Len(matched) > 20
    /\ Len(scraped.items) = 20

\* The element did not throw and has a title and a link.
Usable(el) ==
    /\ ~el.raises
    /\ \E i \in 1..Len(el.title) : el.title[i] # " "
    /\ el.href # ""

\* A title without the white space around it.
Trimmed(text) ==
    LET inked == {i \in 1..Len(text) : text[i] # " "}
        lo == CHOOSE i \in inked : \A j \in inked : i <= j
        hi == CHOOSE i \in inked : \A j \in inked : j <= i
    IN  SubSeq(text, lo, hi)

\* The usable ones of the first 20 matched elements, in order, as items.
UsableOfFirst20(url) ==
    LET n == IF Len(matched) < 20 THEN Len(matched) ELSE 20
        kept == SelectSeq(SubSeq(matched, 1, n), Usable)
    IN  [i \in 1..Len(kept) |->
            [title |-> Trimmed(kept[i].title), link |-> <<url, kept[i].href>>]]

\* 25 matches of which exactly elements 5 and 12 throw, all others usable.
TwentyFiveWithTwoThrowing ==
    /\ Len(matched) = 25
    /\ \A i \in 1..25 : IF i \in {5, 12} THEN matched[i].raises ELSE Usable(matched[i])

\* C13: the result of _scrape_page is exactly the in-order subsequence of the
\* first 20 matched elements that did not throw and have a title and a link;
\* with 25 matches of which elements 5 and 12 throw it has 18 items.
C13_SkipsOnlyFailedElements ==
    scraped.done =>
        /\ scraped.items = UsableOfFirst20("a")
        /\ TwentyFiveWithTwoThrowing => Len(scraped.items) = 18

C13_Witness ==
    /\ scraped.done
    /\ TwentyFiveWithTwoThrowing
    /\ Len(scraped.items) = 18
    /\ scraped.items[5].title = <<"6">>

\* C14: at every moment at most one browser and at most one driver started by
\* the program is alive; a launch happens inside _force_restart_browser, run
\* by the holder of the lock, after the previous browser and driver are torn
\* down; none is alive before the first request takes the lock.
C14_OneRenderProcess ==
    /\ browsers = {} /\ drivers = {} /\ _browser_lock = NoThread
    /\ [][/\ Cardinality(browsers') <= 1
          /\ Cardinality(drivers') <= 1
          /\ connected' \subseteq browsers'
          /\ (drivers' \ drivers # {})
             => /\ _browser_lock # NoThread
                /\ T[_browser_lock].pc = "fr_start"
                /\ browsers = {} /\ drivers = {}
          /\ (browsers' \ browsers # {})
             => /\ _browser_lock # NoThread
                /\ T[_browser_lock].pc = "fr_launch"
                /\ browsers = {} /\ drivers = {_playwright}]_vars

C14_Witness ==
    \E t \in Threads :
        /\ T[t].pc = "goto"
        /\ Len(Select(T[t].trace, {"open"})) = 2
        /\ Outcomes(T[t])[1] = Ev("fail", NavTimeout)
        /\ browsers = {_browser}
        /\ drivers = {_playwright}

\* C15: _force_restart_browser's teardown never raises, whatever the handle
\* (none, live, gone, close() or stop() raising): it goes on to the launch with
\* both globals cleared; and when the launch succeeds the call ends, without
\* an error, with a browser launched by it that answers as the shared handle
\* (the interpreter's exit apart, which ends the call with the process).
C15_RestartFromAnyState ==
    [][\A t \in Threads :
          /\ (T[t].pc = "fr_teardown" /\ T'[t] # T[t] /\ ~exited')
             => /\ T'[t].pc = "fr_start"
                /\ T'[t].e = T[t].e
                /\ _browser' = None /\ _playwright' = None
                /\ browsers' = {} /\ drivers' = {}
          /\ (T[t].pc = "fr_launch" /\ browsers' # browsers)
             => /\ T'[t].pc \notin FrPcs \cup {"handler", "release"}
                /\ T'[t].e \in {NoErr, T[t].e}
                /\ T'[t].resp = T[t].resp
                /\ _browser' # None
                /\ _browser' \notin browsers
                /\ _browser' \in browsers'
                /\ _browser' \in connected'
                /\ T[t].frRet = "get" => T'[t].browser = _browser']_vars

C15_Witness ==
    \E t \in Threads :
        /\ T[t].pc = "new_page"
        /\ T[t].attempt = 2
        /\ Outcomes(T[t]) = <<Ev("fail", NewPageClosed)>>
        /\ RetryRelaunches(T[t]) = 1
        /\ T[t].browser = _browser
        /\ _browser \in connected

\* C16: _shutdown_browser never raises, does nothing when there is no handle,
\* and a second call leaves the state and the outcome of the first: in every
\* state, and in the state the exiting interpreter's call has left.
C16_ShutdownIdempotent ==
    /\ \A o1 \in TeardownOutcomes(Handles) :
          LET once == Shutdown(Handles, o1[1], o1[2]) IN
          /\ once.raised = NoErr
          /\ (_browser = None /\ _playwright = None) => once.st = Handles
          /\ \A o2 \in TeardownOutcomes(once.st) :
                Shutdown(once.st, o2[1], o2[2]) = once
    /\ exited => \A o \in TeardownOutcomes(Handles) :
                    Shutdown(Handles, o[1], o[2]) = [st |-> Handles, raised |-> NoErr]

C16_Witness ==
    /\ exited
    /\ _browser # None
    /\ _browser \notin browsers
    /\ _playwright \notin drivers

\* The url and the config of a request, the config as the handler's reads of
\* the query parameters define it.
PairOf(args) ==
    <<args.url,
      [item_selector |-> IF args.item.given THEN args.item.text ELSE <<"article">>,
       title_selector |-> IF args.title.given THEN args.title.text
                          ELSE <<"h2", ",", " ", "h3", ",", " ", "h4">>,
       link_selector |-> IF args.link.given THEN args.link.text ELSE <<"a">>,
       description_selector |-> args.desc,
       image_selector |-> args.img,
       date_selector |-> args.date,
       date_format |-> IF args.datefmt.given THEN args.datefmt.text ELSE <<"%d-%m-%Y">>]>>

\* C17: two requests get the same cache key exactly when their urls and their
\* configs are the same.
C17_KeyDeterminedByUrlAndConfig ==
    keyed.done => ((keyed.keys[1] = keyed.keys[2]) <=> (PairOf(asked[1]) = PairOf(asked[2])))

C17_Witness ==
    /\ keyed.done
    /\ asked[1].url = <<"a">>
    /\ asked[2].url = <<"a">>
    /\ asked[1].title = Given(Closing(<<"T">>, "link_selector", <<"L">>))
    /\ asked[1].link = Given(<<"X">>)
    /\ asked[2].title = Given(<<"T">>)
    /\ asked[2].link = Given(Closing(<<"L">>, "link_selector", <<"X">>))
    /\ asked[1].item = asked[2].item
    /\ asked[1].desc = asked[2].desc
    /\ keyed.keys[1] # keyed.keys[2]

\* C18 as stated: when /debug leaves its with block, an error it surfaces has
\* given 504 if it is a timeout and 500 otherwise; at most two attempts were
\* made, and a relaunch was forced and a second attempt made only after a
\* first attempt that failed with a crash-classified error.
C18_DebugFollowsFeedConventions ==
    \A t \in Threads :
        (T[t].kind = "debug" /\ T[t].pc = "release") =>
            /\ T[t].e # NoErr
               => T[t].resp.status = (IF IsTimeout(T[t].e) THEN 504 ELSE 500)
            /\ T[t].e = NoErr => T[t].resp.status = 200
            /\ Attempts(T[t]) <= 2
            /\ (Attempts(T[t]) = 2 \/ RetryRelaunches(T[t]) > 0)
               => /\ CrashFail(Outcomes(T[t])[1])
                  /\ RetryRelaunches(T[t]) = 1

\* C19: a step that changes the cache map is the end of a /feed request whose
\* scrape returned at least one item and that answers 200, and it changes the
\* entry of that request's key only; so the requests that end in 400, 404,
\* 500, 503 or 504, the cache hits and the /debug requests leave the map as
\* it was.
C19_OnlySuccessfulFeedWritesCache ==
    [][cache' # cache =>
          \E t \in Threads :
              /\ T[t].kind = "feed"
              /\ T[t].pc = "respond"
              /\ T[t].e = NoErr
              /\ T[t].items # <<>>
              /\ T'[t].pc = "done"
              /\ T'[t].resp.status = 200
              /\ ~T'[t].hit
              /\ \A k \in Keys \ {CacheKey(T[t].url)} : cache'[k] = cache[k]
              /\ cache'[CacheKey(T[t].url)] = [data |-> T'[t].resp.data, time |-> now]]_vars

C19_Witness ==
    \E t \in Threads :
        /\ T[t].kind = "feed"
        /\ T[t].pc = "done"
        /\ T[t].resp.status \in {404, 500, 503, 504}
        /\ cache[CacheKey(T[t].url)] # NoEntry
        /\ now - cache[CacheKey(T[t].url)].time >= CACHE_DURATION

\* C20: a request makes at most two attempts and holds _browser_lock only
\* inside its with block; a request that waits for the lock or holds it
\* completes, having released the lock, whatever the outcome of its attempts
\* and of the launches made for it.
C20_LockReleasedAndRequestsComplete ==
    /\ [](\A t \in Threads :
             /\ Attempts(T[t]) <= 2
             /\ T[t].pc \notin LockPcs => _browser_lock # t)
    /\ \A t \in Threads :
          (T[t].pc = "acquire" \/ _browser_lock = t) ~> (T[t].pc = "done")

C20_Witness ==
    \E t, u \in Threads :
        /\ T[t].pc = "release"
        /\ T[t].kind = "feed"
        /\ T[t].e = LaunchFail
        /\ RetryRelaunches(T[t]) = 1
        /\ T[u].pc = "acquire"

====
